---- MODULE Spec2Model ----
(***************************************************************************)
(* Threat-generation pipeline of the threat-modelling dashboard.           *)
(*                                                                         *)
(* Two entry points into the pipeline exist in the repository:             *)
(*   - the HTTP route POST /:id/generate, which calls generateThreatModel  *)
(*     in the background (routes/threat-models.ts, services/               *)
(*     export.service.ts 766-900);                                         *)
(*   - GenerationService.startGeneration / runGeneration, which goes       *)
(*     through ThreatModelService.updateStatus / updateThreats             *)
(*     (services/google-drive.ts 131-210, unnamed/part_009 164-201).       *)
(*                                                                         *)
(* Every awaited database or network call is a suspension point: the call  *)
(* takes effect atomically at one step, and steps of other handlers may    *)
(* run between two awaited calls of the same handler.  Code between two    *)
(* awaits runs without interruption and belongs to the step of the await   *)
(* that precedes it.                                                       *)
(*                                                                         *)
(* Beside the pipeline the module has the routes that write what the      *)
(* pipeline writes or reads: the edits of threats and mitigations, the     *)
(* usage count of POST /:id/generate, and the share links.                 *)
(*                                                                         *)
(* Deleting a threat model is not modelled: a deleted row has no status    *)
(* left to observe.                                                        *)
(***************************************************************************)
EXTENDS Integers, Sequences, FiniteSets, TLC

\* ------------------------------------------------------------------ bounds
\* Number of generate requests (route or service) issued in one behaviour.
MaxRequests == 2
\* Number of context files of one model.
MaxFiles == 3
\* Number of segments of one provider text.
MaxSegments == 3

\* ------------------------------------------------------- program constants
DEFAULT_GENERATION_LIMIT == 5

ModelIds == {"m1", "m2"}
\* Ids under which a model is inserted; requests for the other ids find no row.
CreatedIds == {"m1"}
Users == {"u1", "u2"}
\* Users who create models; the other users only address models of others.
Owners == {"u1"}
RequestIds == 1..MaxRequests

NULL == "null"
\* The id of a threat or mitigation that has none.
NoId == 0
NoToken == 0

\* A field of a decoded JSON object: present with a value, or undefined.
Defined(v) == [defined |-> TRUE, value |-> v]
Undefined == [defined |-> FALSE, value |-> NULL]

\* drizzle's set() leaves out a field whose value is undefined
SetIfDefined(old, new) == IF new.defined THEN new.value ELSE old

\* A decoded object none of whose fields is present.
NoPayload == [threats |-> Undefined, summary |-> Undefined, recommendations |-> Undefined]

\* The body of a threat edit none of whose fields is present.
NoBody == [severity |-> Undefined, likelihood |-> Undefined, impact |-> Undefined]

\* Messages of the exceptions that can be raised inside an attempt.
ConfigErrorMsg == "Unknown provider in environment"
ProviderErrorMsg == "Connection error."
ParseErrorMsg == "Failed to parse AI response as JSON"
SyntaxErrorMsg == "Unexpected token in JSON"
DbErrorMsg == "database write failed"
ServiceParseErrorMsg == "Could not parse AI response as JSON"
TypeErrorMsg == "undefined is not an object (evaluating 'parsed.threats.map')"
FetchErrorMsg == "Failed to fetch file from url: Not Found"
StorageErrorMsg == "File not found: key"

VARIABLES
    threatModels,   \* table threat_models: one row per model id
    userUsage,      \* table user_usage: one row per user id
    generationJobs, \* GenerationService's in-memory job map, keyed by model id
    contextFiles,   \* table context_files: the files of each model id, in order
    jiraTickets,    \* table jira_tickets: the tickets of each model id, in order
    req             \* generate requests and the background attempts they start

vars == <<threatModels, userUsage, generationJobs, contextFiles, jiraTickets, req>>

\* ------------------------------------------------------------------ tables
\* A row of threat_models that has not been inserted yet.
NoRow ==
    [exists |-> FALSE, userId |-> NULL, status |-> NULL, threats |-> << >>,
     summary |-> NULL, recommendations |-> << >>, isPublic |-> FALSE,
     generationStartedAt |-> 0, generationCompletedAt |-> 0,
     generationError |-> NULL, shareToken |-> NoToken]

\* A row of user_usage that has not been inserted yet.
NoUsage == [exists |-> FALSE, generationsUsed |-> 0, generationsLimit |-> 0]

\* A model id without an entry in the job map.
NoJob == [status |-> NULL, progress |-> 0, error |-> NULL]

\* A request slot that has not been used yet.
IdleReq ==
    [pc |-> "idle", via |-> NULL, id |-> NULL, userId |-> NULL, seen |-> NULL,
     seenUsed |-> 0, resp |-> NULL, error |-> NULL, result |-> NoPayload,
     files |-> << >>, tickets |-> << >>, provider |-> NULL, content |-> << >>,
     calls |-> 0, writes |-> << >>,
     threatId |-> NoId, body |-> NoBody, snapshot |-> << >>, text |-> << >>,
     mitigationId |-> NoId, status |-> NULL, shareToken |-> NoToken]

\* An attempt that has returned: its locals are gone, what the request
\* observed and answered is kept.
Finished(q) ==
    [q EXCEPT !.pc = "done", !.userId = NULL, !.seenUsed = 0, !.error = NULL,
              !.result = NoPayload, !.files = << >>, !.tickets = << >>,
              !.provider = NULL,
              !.content = << >>, !.threatId = NoId, !.body = NoBody,
              !.snapshot = << >>, !.text = << >>, !.mitigationId = NoId,
              !.status = NULL, !.shareToken = NoToken]

\* Request k starts only after request k-1 has started.
IsNext(r) == req[r].pc = "idle" /\ (IF r = 1 THEN TRUE ELSE req[r - 1].pc # "idle")

\* The instant of a timestamping write by attempt r: each `new Date()` of an
\* attempt is later than every write before it; it is named by the attempt.
Now(r) == r

\* ----------------------------------------------------------------- content
\* A row of context_files together with what the storage answers for it:
\* url, whether storage.getUrl returns; bytes, whether storage.get returns;
\* fetch, whether a GET of the returned URL succeeds.
File(name, mimeType, url, bytes, fetch) ==
    [name |-> name, mimeType |-> mimeType, url |-> url, bytes |-> bytes,
     fetch |-> fetch]

\* mimeType.startsWith('image/') and mimeType.startsWith('text/') on the
\* MIME types that occur.
ImageMimeTypes == {"image/jpeg", "image/png", "image/gif", "image/webp", "image/bmp"}
TextMimeTypes == {"text/plain", "text/markdown"}
\* originalName.endsWith('.md') || originalName.endsWith('.txt') on the
\* names that occur.
TextFileNames == {"notes.md", "scan.txt"}

Providers == {"openai", "anthropic"}

getSupportedImageTypes(provider) ==
    {"image/jpeg", "image/png", "image/gif", "image/webp"}

supportsPDF(provider) == provider = "anthropic"

supportsContentType(provider, type) ==
    IF provider = "anthropic"
    THEN type \in {"text", "image", "document"}
    ELSE type \in {"text", "image"}

\* ContentBlock: role and ref say which part of the context a block renders.
TextBlock(role, ref) ==
    [type |-> "text", role |-> role, ref |-> ref, fetchable |-> TRUE]
ImageBlock(file) ==
    [type |-> "image", role |-> "file", ref |-> file.name, fetchable |-> file.fetch]
DocumentBlock(file) ==
    [type |-> "document", role |-> "file", ref |-> file.name, fetchable |-> file.fetch]

Converted(block) == [outcome |-> "block", block |-> block]
Skipped == [outcome |-> "null", block |-> TextBlock(NULL, NULL)]
Raised == [outcome |-> "raise", block |-> TextBlock(NULL, NULL)]

\* fileToContentBlock without its try/catch: a storage error is raised to
\* the caller.
fileToContentBlockUnguarded(file, provider) ==
    IF ~file.url THEN Raised
    ELSE IF file.mimeType \in ImageMimeTypes
            /\ file.mimeType \in getSupportedImageTypes(provider)
        THEN Converted(ImageBlock(file))
    ELSE IF file.mimeType = "application/pdf"
        THEN IF supportsPDF(provider) THEN Converted(DocumentBlock(file)) ELSE Skipped
    ELSE IF \/ file.mimeType \in TextMimeTypes
            \/ file.mimeType = "application/json"
            \/ file.name \in TextFileNames
        THEN IF file.bytes THEN Converted(TextBlock("file", file.name)) ELSE Raised
    ELSE Skipped

\* fileToContentBlock without the capability queries: every image and every
\* PDF becomes a block, whatever the provider.
fileToContentBlockAnyProvider(file, provider) ==
    IF ~file.url THEN Skipped
    ELSE IF file.mimeType \in ImageMimeTypes
        THEN Converted(ImageBlock(file))
    ELSE IF file.mimeType = "application/pdf"
        THEN Converted(DocumentBlock(file))
    ELSE IF \/ file.mimeType \in TextMimeTypes
            \/ file.mimeType = "application/json"
            \/ file.name \in TextFileNames
        THEN IF file.bytes THEN Converted(TextBlock("file", file.name)) ELSE Skipped
    ELSE Skipped

\* fileToContentBlock: the URL is resolved first; then image, PDF, text, in
\* this order; every exception is caught and null is returned.
fileToContentBlock(file, provider) ==
    IF ~file.url THEN Skipped
    ELSE IF file.mimeType \in ImageMimeTypes
            /\ file.mimeType \in getSupportedImageTypes(provider)
        THEN Converted(ImageBlock(file))
    ELSE IF file.mimeType = "application/pdf"
        THEN IF supportsPDF(provider) THEN Converted(DocumentBlock(file)) ELSE Skipped
    ELSE IF \/ file.mimeType \in TextMimeTypes
            \/ file.mimeType = "application/json"
            \/ file.name \in TextFileNames
        THEN IF file.bytes THEN Converted(TextBlock("file", file.name)) ELSE Skipped
    ELSE Skipped

\* for (const file of files): a label and the block for each file that was
\* converted; a raised exception leaves the loop.
RECURSIVE FileBlocks(_, _)
FileBlocks(files, provider) ==
    IF files = << >> THEN [ok |-> TRUE, blocks |-> << >>]
    ELSE LET first == fileToContentBlock(Head(files), provider)
             rest == FileBlocks(Tail(files), provider)
         IN IF first.outcome = "raise" \/ ~rest.ok
                THEN [ok |-> FALSE, blocks |-> << >>]
            ELSE [ok |-> TRUE,
                  blocks |->
                    (IF first.outcome = "block"
                     THEN <<TextBlock("label", Head(files).name), first.block>>
                     ELSE << >>) \o rest.blocks]

\* BuildContent with the file section ahead of the tickets.
BuildContentFilesFirst(files, tickets, provider) ==
    LET fromFiles == FileBlocks(files, provider) IN
    [ok |-> fromFiles.ok,
     blocks |->
        <<TextBlock("context", NULL)>>
        \o (IF Len(files) > 0 THEN <<TextBlock("manifest", NULL)>> ELSE << >>)
        \o fromFiles.blocks
        \o (IF Len(tickets) > 0
            THEN <<TextBlock("ticketHeader", NULL)>>
                 \o [i \in 1..Len(tickets) |-> TextBlock("ticket", tickets[i])]
            ELSE << >>)
        \o <<TextBlock("instruction", NULL)>>]

\* The content blocks built by generateThreatModel.
BuildContent(files, tickets, provider) ==
    LET fromFiles == FileBlocks(files, provider) IN
    [ok |-> fromFiles.ok,
     blocks |->
        <<TextBlock("context", NULL)>>
        \o (IF Len(tickets) > 0
            THEN <<TextBlock("ticketHeader", NULL)>>
                 \o [i \in 1..Len(tickets) |-> TextBlock("ticket", tickets[i])]
            ELSE << >>)
        \o (IF Len(files) > 0 THEN <<TextBlock("manifest", NULL)>> ELSE << >>)
        \o fromFiles.blocks
        \o <<TextBlock("instruction", NULL)>>]

\* convertContent of the provider adapters, called by complete: Anthropic
\* fetches every image and document URL and raises when a fetch fails;
\* OpenAI passes image URLs on and drops documents.
convertContent(provider, content) ==
    IF provider = "anthropic"
    THEN [ok |-> \A i \in 1..Len(content) :
                    content[i].type \in {"image", "document"} => content[i].fetchable,
          error |-> FetchErrorMsg]
    ELSE [ok |-> TRUE, error |-> NULL]

\* ------------------------------------------------------------------ threats
\* A threat as it is stored in the threats column, or as it is decoded from
\* the provider's JSON.  title stands for the text fields title, description
\* and category; a text field or severity that the JSON lacks is NULL, an id
\* that it lacks is NoId.  likelihood and impact are numbers in every
\* response considered here.
Mitigation(id, status) == [id |-> id, status |-> status]

Threat(id, title, likelihood, impact, riskScore, severity, mitigations) ==
    [id |-> id, title |-> title, likelihood |-> likelihood, impact |-> impact,
     riskScore |-> riskScore, severity |-> severity, mitigations |-> mitigations]

calculateRiskScore(likelihood, impact) == likelihood * impact

getRiskSeverityFromScore(score) ==
    IF score >= 20 THEN "critical"
    ELSE IF score >= 15 THEN "high"
    ELSE IF score >= 10 THEN "medium"
    ELSE IF score >= 5 THEN "low"
    ELSE "info"

\* nanoid() called by attempt r for the k-th object it creates: a value that
\* no response and no other call yields.
nanoid(r, k) == 1000 * r + k

\* threats.sort((a, b) => b.riskScore - a.riskScore): the sort is stable, an
\* element goes behind every element whose score is not smaller.
RECURSIVE InsertByRiskScore(_, _)
InsertByRiskScore(sorted, t) ==
    IF sorted = << >> THEN <<t>>
    ELSE IF Head(sorted).riskScore >= t.riskScore
        THEN <<Head(sorted)>> \o InsertByRiskScore(Tail(sorted), t)
    ELSE <<t>> \o sorted

RECURSIVE SortByRiskScore(_)
SortByRiskScore(threats) ==
    IF threats = << >> THEN << >>
    ELSE InsertByRiskScore(SortByRiskScore(SubSeq(threats, 1, Len(threats) - 1)),
                           threats[Len(threats)])

\* slice(0, n)
Slice(s, n) == SubSeq(s, 1, IF Len(s) < n THEN Len(s) ELSE n)

\* The map of generateThreatsWithAI over parsed.threats for attempt r: fresh
\* ids, the score and the severity computed, mitigations with fresh ids and
\* status proposed.
EnrichThreats(r, threats) ==
    [i \in 1..Len(threats) |->
        LET t == threats[i]
            riskScore == calculateRiskScore(t.likelihood, t.impact)
        IN Threat(nanoid(r, 100 * i), t.title, t.likelihood, t.impact, riskScore,
                  getRiskSeverityFromScore(riskScore),
                  [j \in 1..Len(t.mitigations) |->
                        Mitigation(nanoid(r, 100 * i + j), "proposed")])]

\* ----------------------------------------------------------- LLM responses
\* What the provider's text decodes to for attempt r.  "full" carries the
\* three fields; "nothreats" is a JSON object without a threats key.
Payload(r, kind) ==
    [threats |->
        IF kind = "full"
        THEN Defined(<<Threat(r, "title", 2, 3, 6, "low",
                              <<Mitigation(10 * r, "proposed")>>)>>)
        ELSE Undefined,
     summary |-> Defined("summary " \o ToString(r)),
     recommendations |->
        IF kind = "full" THEN Defined(<<"recommendation " \o ToString(r)>>)
        ELSE Undefined]

\* A provider text is a sequence of segments: text without any brace
\* (prose, a code fence marker), a well-formed JSON object from its opening
\* to its closing brace, or a brace on its own.
Prose == [kind |-> "prose", body |-> NoPayload]
OpenBrace == [kind |-> "{", body |-> NoPayload]
CloseBrace == [kind |-> "}", body |-> NoPayload]
Object(body) == [kind |-> "object", body |-> body]

HasOpenBrace(segment) == segment.kind \in {"{", "object"}
HasCloseBrace(segment) == segment.kind \in {"}", "object"}

JsonText(body) == <<Object(body)>>
WrappedText(body) == <<Prose, Object(body), Prose>>
ProseText == <<Prose>>
BrokenText == <<OpenBrace, Prose, CloseBrace>>

\* JSON.parse: the text decodes when it is one object and nothing else.
JSONparse(text) ==
    IF Len(text) = 1 /\ text[1].kind = "object"
    THEN [ok |-> TRUE, value |-> text[1].body, error |-> NULL]
    ELSE [ok |-> FALSE, value |-> NoPayload, error |-> SyntaxErrorMsg]

\* text.match(/\{[\s\S]*\}/): the star is greedy, the match runs from the
\* first opening brace to the last closing brace after it.
MatchBraces(text) ==
    LET opens == {i \in 1..Len(text) : HasOpenBrace(text[i])} IN
    IF opens = {}
    THEN [found |-> FALSE, text |-> << >>]
    ELSE LET first == CHOOSE i \in opens : \A k \in opens : i <= k
             closes == {j \in first..Len(text) : HasCloseBrace(text[j])}
         IN IF closes = {}
            THEN [found |-> FALSE, text |-> << >>]
            ELSE LET last == CHOOSE j \in closes : \A k \in closes : k <= j
                 IN [found |-> TRUE, text |-> SubSeq(text, first, last)]

\* Raw provider texts: plain JSON, JSON wrapped in prose or a code fence,
\* prose without any brace, and a brace span that is not valid JSON.
RawTexts(r) ==
    {JsonText(Payload(r, k)) : k \in {"full", "nothreats"}}
    \cup {WrappedText(Payload(r, k)) : k \in {"full", "nothreats"}}
    \cup {ProseText, BrokenText}

\* parseResponse: JSON.parse, else JSON.parse of the /\{[\s\S]*\}/ match,
\* else throw.  Returns [ok, value] or [ok = FALSE, error].
parseResponse(raw) ==
    LET whole == JSONparse(raw) IN
    IF whole.ok
    THEN whole
    ELSE LET jsonMatch == MatchBraces(raw) IN
         IF jsonMatch.found
         THEN JSONparse(jsonMatch.text)
         ELSE [ok |-> FALSE, value |-> NoPayload, error |-> ParseErrorMsg]

\* --------------------------------------------------------------------- Init
\* Usage rows may exist already: models generated earlier and deleted since
\* leave their count behind.
InitUsage ==
    {NoUsage} \cup
    {[exists |-> TRUE, generationsUsed |-> n,
      generationsLimit |-> DEFAULT_GENERATION_LIMIT] :
        n \in {DEFAULT_GENERATION_LIMIT - 1, DEFAULT_GENERATION_LIMIT}}

Init ==
    /\ threatModels = [m \in ModelIds |-> NoRow]
    /\ \E usage \in InitUsage :
            userUsage = [u \in Users |-> IF u \in Owners THEN usage ELSE NoUsage]
    /\ generationJobs = [m \in ModelIds |-> NoJob]
    /\ contextFiles = [m \in ModelIds |-> << >>]
    /\ jiraTickets = [m \in ModelIds |-> << >>]
    /\ req = [r \in RequestIds |-> IdleReq]

\* ------------------------------------------------------------- CRUD routes
\* POST / : insert a draft owned by the caller.
CreateThreatModel(m, u) ==
    /\ ~threatModels[m].exists
    /\ threatModels' = [threatModels EXCEPT ![m] =
            [NoRow EXCEPT !.exists = TRUE, !.userId = u, !.status = "draft"]]
    /\ UNCHANGED <<userUsage, generationJobs, req>>
    /\ UNCHANGED <<contextFiles, jiraTickets>>

\* PATCH /:id : the validated body holds title, description,
\* systemDescription, questionsAnswers and isPublic only.
UpdateThreatModel(m, u, isPublic) ==
    /\ threatModels[m].exists
    /\ threatModels[m].userId = u
    /\ threatModels[m].isPublic # isPublic
    /\ threatModels' = [threatModels EXCEPT ![m].isPublic = isPublic]
    /\ UNCHANGED <<userUsage, generationJobs, req>>
    /\ UNCHANGED <<contextFiles, jiraTickets>>

\* GET /:id/generation-status
GenerationStatus(m) ==
    LET model == threatModels[m] IN
    [status |-> model.status,
     error |-> model.generationError,
     progress |-> IF model.status = "generating" THEN 50
                  ELSE IF model.status = "completed" THEN 100 ELSE 0]

\* ------------------------------------------------- POST /:id/generate route
\* The synchronous start of generateThreatModel: the update to generating is
\* issued, the route does not await it and answers at once.  The handler has
\* returned: its locals userId and usage are gone.
Admit(r, m, u, seen, used) ==
    [IdleReq EXCEPT !.pc = "mark", !.via = "route", !.id = m, !.seen = seen,
                    !.resp = "accepted"]

Reject(r, m, u, seen, resp) ==
    [IdleReq EXCEPT !.pc = "done", !.via = "route", !.id = m, !.seen = seen,
                    !.resp = resp]

\* GenerateRead without the status guard: a model that is generating is
\* admitted like a completed one.
GenerateReadWithoutGuard(r, m, u) ==
    /\ IsNext(r)
    /\ LET model == threatModels[m] IN
       req' = [req EXCEPT ![r] =
            IF ~model.exists \/ model.userId # u
                THEN Reject(r, NULL, u, NULL, "not_found")
            ELSE IF model.status \in {"generating", "completed", "failed"}
                THEN Admit(r, m, u, model.status, 0)
            ELSE [IdleReq EXCEPT !.pc = "usage", !.via = "route", !.id = m,
                                 !.userId = u, !.seen = model.status]]
    /\ UNCHANGED <<threatModels, userUsage, generationJobs>>
    /\ UNCHANGED <<contextFiles, jiraTickets>>

\* select the model with the ownership check, then the status guard
GenerateRead(r, m, u) ==
    /\ IsNext(r)
    /\ LET model == threatModels[m] IN
       req' = [req EXCEPT ![r] =
            IF ~model.exists \/ model.userId # u
                THEN Reject(r, NULL, u, NULL, "not_found")
            ELSE IF model.status = "generating"
                THEN Reject(r, m, u, "generating", "conflict")
            ELSE IF model.status \in {"completed", "failed"}
                THEN Admit(r, m, u, model.status, 0)
            ELSE [IdleReq EXCEPT !.pc = "usage", !.via = "route", !.id = m,
                                 !.userId = u, !.seen = model.status]]
    /\ UNCHANGED <<threatModels, userUsage, generationJobs>>
    /\ UNCHANGED <<contextFiles, jiraTickets>>

\* getUserUsage: select, and the quota check when the row exists
GenerateUsage(r) ==
    /\ req[r].pc = "usage"
    /\ LET usage == userUsage[req[r].userId] IN
       req' = [req EXCEPT ![r] =
            IF ~usage.exists THEN [@ EXCEPT !.pc = "insert"]
            ELSE IF usage.generationsUsed >= usage.generationsLimit
                THEN Reject(r, @.id, @.userId, @.seen, "quota")
            ELSE [@ EXCEPT !.pc = "incr", !.seenUsed = usage.generationsUsed]]
    /\ UNCHANGED <<threatModels, userUsage, generationJobs>>
    /\ UNCHANGED <<contextFiles, jiraTickets>>

\* getUserUsage: insert of the missing row (user_id is unique: a second
\* insert raises and the request ends in an error response), then the quota
\* check on the returned row
GenerateInsertUsage(r) ==
    /\ req[r].pc = "insert"
    /\ LET u == req[r].userId IN
       IF userUsage[u].exists
       THEN /\ req' = [req EXCEPT ![r] =
                    Reject(r, @.id, @.userId, @.seen, "error")]
            /\ UNCHANGED userUsage
       ELSE /\ userUsage' = [userUsage EXCEPT ![u] =
                    [exists |-> TRUE, generationsUsed |-> 0,
                     generationsLimit |-> DEFAULT_GENERATION_LIMIT]]
            /\ req' = [req EXCEPT ![r] = [@ EXCEPT !.pc = "incr", !.seenUsed = 0]]
    /\ UNCHANGED <<threatModels, generationJobs>>
    /\ UNCHANGED <<contextFiles, jiraTickets>>

\* update of generationsUsed to the value read plus one, then the call of
\* generateThreatModel and the response
GenerateIncrement(r) ==
    /\ req[r].pc = "incr"
    /\ userUsage' = [userUsage EXCEPT
            ![req[r].userId].generationsUsed = req[r].seenUsed + 1]
    /\ req' = [req EXCEPT ![r] =
            Admit(r, @.id, @.userId, @.seen, @.seenUsed)]
    /\ UNCHANGED <<threatModels, generationJobs>>
    /\ UNCHANGED <<contextFiles, jiraTickets>>

\* ------------------------------------------------------ generateThreatModel
\* update ... set status = generating, generationStartedAt, generationError
MarkGenerating(r) ==
    /\ req[r].pc = "mark"
    /\ req[r].via = "route"
    /\ threatModels' = [threatModels EXCEPT ![req[r].id] =
            [@ EXCEPT !.status = "generating",
                      !.generationStartedAt = Now(r),
                      !.generationError = NULL]]
    /\ req' = [req EXCEPT ![r].pc = "load",
                          ![r].writes = Append(@, "generating")]
    /\ UNCHANGED <<userUsage, generationJobs>>
    /\ UNCHANGED <<contextFiles, jiraTickets>>

\* select of the model, files and tickets; getDefaultProvider and the
\* assembly of the content blocks.  A provider that cannot be configured
\* raises.  providers are the providers the configuration may select.
LoadAndAssembleFrom(r, providers) ==
    /\ req[r].pc = "load"
    /\ req[r].via = "route"
    /\ \/ \E provider \in providers :
            LET files == contextFiles[req[r].id]
                tickets == jiraTickets[req[r].id]
                built == BuildContent(files, tickets, provider)
            IN
            req' = [req EXCEPT ![r] =
                IF built.ok
                THEN [@ EXCEPT !.pc = "call", !.files = files,
                               !.tickets = tickets, !.provider = provider,
                               !.content = built.blocks]
                ELSE [@ EXCEPT !.pc = "catch", !.error = StorageErrorMsg]]
       \/ req' = [req EXCEPT ![r].pc = "catch", ![r].error = ConfigErrorMsg]
    /\ UNCHANGED <<threatModels, userUsage, generationJobs>>
    /\ UNCHANGED <<contextFiles, jiraTickets>>

\* An attempt with the default provider.
LoadAndAssemble(r) == LoadAndAssembleFrom(r, {"openai"})

\* provider.complete is called once: it converts the content, makes the
\* round trip and returns a text or raises; parseResponse follows.  texts
\* are the texts the provider may answer with.
CallProviderFrom(r, texts) ==
    /\ req[r].pc = "call"
    /\ req[r].via = "route"
    /\ LET converted == convertContent(req[r].provider, req[r].content)
           called == [req[r] EXCEPT !.calls = @ + 1, !.content = << >>]
       IN IF ~converted.ok
          THEN req' = [req EXCEPT ![r] =
                    [called EXCEPT !.pc = "catch", !.error = converted.error]]
          ELSE \/ \E raw \in texts :
                    LET parsed == parseResponse(raw) IN
                    req' = [req EXCEPT ![r] =
                        IF parsed.ok
                        THEN [called EXCEPT !.pc = "persist", !.result = parsed.value]
                        ELSE [called EXCEPT !.pc = "catch", !.error = parsed.error]]
               \/ req' = [req EXCEPT ![r] =
                        [called EXCEPT !.pc = "catch", !.error = ProviderErrorMsg]]
    /\ UNCHANGED <<threatModels, userUsage, generationJobs>>
    /\ UNCHANGED <<contextFiles, jiraTickets>>

CallProvider(r) == CallProviderFrom(r, RawTexts(r))

\* PersistResult followed by a statement that raises: the result is written
\* and the catch block runs as well.
PersistResultThenFailure(r) ==
    /\ req[r].pc = "persist"
    /\ req[r].via = "route"
    /\ threatModels' = [threatModels EXCEPT ![req[r].id] =
            [@ EXCEPT !.status = "completed",
                      !.threats = SetIfDefined(@, req[r].result.threats),
                      !.summary = SetIfDefined(@, req[r].result.summary),
                      !.recommendations =
                          SetIfDefined(@, req[r].result.recommendations),
                      !.generationCompletedAt = Now(r)]]
    /\ req' = [req EXCEPT ![r].pc = "catch", ![r].error = DbErrorMsg,
                          ![r].writes = Append(@, "completed")]
    /\ UNCHANGED <<userUsage, generationJobs>>
    /\ UNCHANGED <<contextFiles, jiraTickets>>

\* update ... set status = completed, threats, summary, recommendations,
\* generationCompletedAt; the statement may raise
PersistResult(r) ==
    /\ req[r].pc = "persist"
    /\ req[r].via = "route"
    /\ \/ /\ threatModels' = [threatModels EXCEPT ![req[r].id] =
                [@ EXCEPT !.status = "completed",
                          !.threats = SetIfDefined(@, req[r].result.threats),
                          !.summary = SetIfDefined(@, req[r].result.summary),
                          !.recommendations =
                              SetIfDefined(@, req[r].result.recommendations),
                          !.generationCompletedAt = Now(r)]]
          /\ req' = [req EXCEPT ![r] =
                    Finished([@ EXCEPT !.writes = Append(@, "completed")])]
       \/ /\ req' = [req EXCEPT ![r].pc = "catch", ![r].error = DbErrorMsg]
          /\ UNCHANGED threatModels
    /\ UNCHANGED <<userUsage, generationJobs>>
    /\ UNCHANGED <<contextFiles, jiraTickets>>

\* PersistFailure with the rejection swallowed: the error is logged and
\* nothing is written.
PersistFailureSwallowed(r) ==
    /\ req[r].pc = "catch"
    /\ req[r].via = "route"
    /\ req' = [req EXCEPT ![r] = Finished(@)]
    /\ UNCHANGED <<threatModels, userUsage, generationJobs>>
    /\ UNCHANGED <<contextFiles, jiraTickets>>

\* PersistFailure that flips the status and leaves out the message.
PersistFailureWithoutMessage(r) ==
    /\ req[r].pc = "catch"
    /\ req[r].via = "route"
    /\ threatModels' = [threatModels EXCEPT ![req[r].id] =
            [@ EXCEPT !.status = "failed"]]
    /\ req' = [req EXCEPT ![r] =
            Finished([@ EXCEPT !.writes = Append(@, "failed")])]
    /\ UNCHANGED <<userUsage, generationJobs>>
    /\ UNCHANGED <<contextFiles, jiraTickets>>

\* PersistFailure with an update that has no where clause: every row is
\* set to failed.
PersistFailureEveryModel(r) ==
    /\ req[r].pc = "catch"
    /\ req[r].via = "route"
    /\ threatModels' = [m \in ModelIds |->
            [threatModels[m] EXCEPT !.status = "failed",
                                    !.generationError = req[r].error]]
    /\ req' = [req EXCEPT ![r] =
            Finished([@ EXCEPT !.writes = Append(@, "failed")])]
    /\ UNCHANGED <<userUsage, generationJobs>>
    /\ UNCHANGED <<contextFiles, jiraTickets>>

\* catch: update ... set status = failed, generationError = error.message
PersistFailure(r) ==
    /\ req[r].pc = "catch"
    /\ req[r].via = "route"
    /\ threatModels' = [threatModels EXCEPT ![req[r].id] =
            [@ EXCEPT !.status = "failed", !.generationError = req[r].error]]
    /\ req' = [req EXCEPT ![r] =
            Finished([@ EXCEPT !.writes = Append(@, "failed")])]
    /\ UNCHANGED <<userUsage, generationJobs>>
    /\ UNCHANGED <<contextFiles, jiraTickets>>

\* ------------------------------------------------------ ThreatModelService
\* updateStatus(id, status, error?): one update of the row
updateStatus(row, status, error, now) ==
    IF status = "generating"
        THEN [row EXCEPT !.status = status, !.generationStartedAt = now,
                         !.generationError = NULL]
    ELSE IF status = "completed"
        THEN [row EXCEPT !.status = status, !.generationCompletedAt = now]
    ELSE IF status = "failed"
        THEN [row EXCEPT !.status = status,
                         !.generationError = SetIfDefined(@, error)]
    ELSE [row EXCEPT !.status = status]

\* updateThreats(id, threats, summary, recommendations): one update of the row
updateThreats(row, threats, summary, recommendations) ==
    [row EXCEPT !.threats = SetIfDefined(@, threats),
                !.summary = SetIfDefined(@, summary),
                !.recommendations = SetIfDefined(@, recommendations)]

\* -------------------------------------------------------- GenerationService
Job(status, progress, error) ==
    [status |-> status, progress |-> progress, error |-> error]

\* getJobStatus
getJobStatus(m) ==
    IF generationJobs[m] = NoJob THEN Job("queued", 0, NULL) ELSE generationJobs[m]

\* generateThreatsWithAI after the completion call: the text is searched for
\* a brace span, decoded, and the threats are mapped; summary and
\* recommendations default to '' and [].
generateThreatsWithAI(r, raw) ==
    LET jsonMatch == MatchBraces(raw)
        parsed == JSONparse(jsonMatch.text)
    IN
    CASE ~jsonMatch.found ->
            [ok |-> FALSE, value |-> NoPayload, error |-> ServiceParseErrorMsg]
      [] ~parsed.ok ->
            [ok |-> FALSE, value |-> NoPayload, error |-> SyntaxErrorMsg]
      [] ~parsed.value.threats.defined ->
            [ok |-> FALSE, value |-> NoPayload, error |-> TypeErrorMsg]
      [] OTHER ->
            [ok |-> TRUE, error |-> NULL,
             value |-> [threats |->
                            Defined(Slice(SortByRiskScore(
                                EnrichThreats(r, parsed.value.threats.value)), 5)),
                        summary |-> IF parsed.value.summary.defined
                                    THEN parsed.value.summary ELSE Defined(""),
                        recommendations |->
                            IF parsed.value.recommendations.defined
                            THEN parsed.value.recommendations ELSE Defined(<< >>)]]

\* startGeneration: getById, and the throw when there is no such model.
\* No status is checked here.
ServiceStart(r, m) ==
    /\ IsNext(r)
    /\ req' = [req EXCEPT ![r] =
            IF ~threatModels[m].exists
            THEN [IdleReq EXCEPT !.pc = "done", !.via = "service",
                                 !.resp = "not_found"]
            ELSE [IdleReq EXCEPT !.pc = "mark", !.via = "service", !.id = m,
                                 !.seen = threatModels[m].status]]
    /\ UNCHANGED <<threatModels, userUsage, generationJobs>>
    /\ UNCHANGED <<contextFiles, jiraTickets>>

\* startGeneration: the awaited updateStatus(generating); then runGeneration
\* is started, the job is set to processing and the id is returned
ServiceMarkGenerating(r) ==
    /\ req[r].pc = "mark"
    /\ req[r].via = "service"
    /\ threatModels' = [threatModels EXCEPT ![req[r].id] =
            updateStatus(@, "generating", Undefined, Now(r))]
    /\ generationJobs' = [generationJobs EXCEPT ![req[r].id] =
            Job("processing", 10, NULL)]
    /\ req' = [req EXCEPT ![r].pc = "load", ![r].resp = "accepted",
                          ![r].writes = Append(@, "generating")]
    /\ UNCHANGED userUsage
    /\ UNCHANGED <<contextFiles, jiraTickets>>

\* runGeneration: getById returns
ServiceLoad(r) ==
    /\ req[r].pc = "load"
    /\ req[r].via = "service"
    /\ generationJobs' = [generationJobs EXCEPT ![req[r].id] =
            Job("processing", 20, NULL)]
    /\ req' = [req EXCEPT ![r].pc = "context"]
    /\ UNCHANGED <<threatModels, userUsage>>
    /\ UNCHANGED <<contextFiles, jiraTickets>>

\* runGeneration: buildContext returns
ServiceBuildContext(r) ==
    /\ req[r].pc = "context"
    /\ generationJobs' = [generationJobs EXCEPT ![req[r].id] =
            Job("processing", 40, NULL)]
    /\ req' = [req EXCEPT ![r].pc = "call"]
    /\ UNCHANGED <<threatModels, userUsage>>
    /\ UNCHANGED <<contextFiles, jiraTickets>>

\* runGeneration: generateThreatsWithAI returns or raises
ServiceCall(r) ==
    /\ req[r].pc = "call"
    /\ req[r].via = "service"
    /\ \/ \E raw \in RawTexts(r) :
            LET parsed == generateThreatsWithAI(r, raw) IN
            IF parsed.ok
            THEN /\ req' = [req EXCEPT ![r].pc = "threats",
                                       ![r].calls = @ + 1,
                                       ![r].result = parsed.value]
                 /\ generationJobs' = [generationJobs EXCEPT ![req[r].id] =
                        Job("processing", 80, NULL)]
            ELSE /\ req' = [req EXCEPT ![r].pc = "catch",
                                       ![r].calls = @ + 1,
                                       ![r].error = parsed.error]
                 /\ UNCHANGED generationJobs
       \/ /\ req' = [req EXCEPT ![r].pc = "catch", ![r].calls = @ + 1,
                                 ![r].error = ProviderErrorMsg]
          /\ UNCHANGED generationJobs
    /\ UNCHANGED <<threatModels, userUsage>>
    /\ UNCHANGED <<contextFiles, jiraTickets>>

\* runGeneration: the awaited updateThreats; the statement may raise
ServiceUpdateThreats(r) ==
    /\ req[r].pc = "threats"
    /\ \/ /\ threatModels' = [threatModels EXCEPT ![req[r].id] =
                updateThreats(@, req[r].result.threats, req[r].result.summary,
                              req[r].result.recommendations)]
          /\ req' = [req EXCEPT ![r].pc = "status",
                                ![r].writes = Append(@, "threats")]
       \/ /\ req' = [req EXCEPT ![r].pc = "catch", ![r].error = DbErrorMsg]
          /\ UNCHANGED threatModels
    /\ UNCHANGED <<userUsage, generationJobs>>
    /\ UNCHANGED <<contextFiles, jiraTickets>>

\* runGeneration: the awaited updateStatus(completed), then the job is set
\* to completed; the statement may raise
ServiceUpdateStatus(r) ==
    /\ req[r].pc = "status"
    /\ \/ /\ threatModels' = [threatModels EXCEPT ![req[r].id] =
                updateStatus(@, "completed", Undefined, Now(r))]
          /\ generationJobs' = [generationJobs EXCEPT ![req[r].id] =
                Job("completed", 100, NULL)]
          /\ req' = [req EXCEPT ![r] =
                    Finished([@ EXCEPT !.writes = Append(@, "completed")])]
       \/ /\ req' = [req EXCEPT ![r].pc = "catch", ![r].error = DbErrorMsg]
          /\ UNCHANGED <<threatModels, generationJobs>>
    /\ UNCHANGED userUsage
    /\ UNCHANGED <<contextFiles, jiraTickets>>

\* the catch handler of startGeneration: updateStatus(failed, err.message)
\* is issued without await and the job is set to failed
ServiceCatch(r) ==
    /\ req[r].pc = "catch"
    /\ req[r].via = "service"
    /\ generationJobs' = [generationJobs EXCEPT ![req[r].id] =
            Job("failed", 0, req[r].error)]
    /\ req' = [req EXCEPT ![r].pc = "fail"]
    /\ UNCHANGED <<threatModels, userUsage>>
    /\ UNCHANGED <<contextFiles, jiraTickets>>

\* the updateStatus(failed, err.message) issued by the catch handler
ServiceFailed(r) ==
    /\ req[r].pc = "fail"
    /\ threatModels' = [threatModels EXCEPT ![req[r].id] =
            updateStatus(@, "failed", Defined(req[r].error), Now(r))]
    /\ req' = [req EXCEPT ![r] =
            Finished([@ EXCEPT !.writes = Append(@, "failed")])]
    /\ UNCHANGED <<userUsage, generationJobs>>
    /\ UNCHANGED <<contextFiles, jiraTickets>>

\* -------------------------------------------------------------------- Next
Next ==
    \/ \E m \in CreatedIds, u \in Owners : CreateThreatModel(m, u)
    \/ \E m \in ModelIds, u \in Users, b \in BOOLEAN : UpdateThreatModel(m, u, b)
    \/ \E r \in RequestIds, m \in ModelIds, u \in Users : GenerateRead(r, m, u)
    \/ \E r \in RequestIds : GenerateUsage(r)
    \/ \E r \in RequestIds : GenerateInsertUsage(r)
    \/ \E r \in RequestIds : GenerateIncrement(r)
    \/ \E r \in RequestIds : MarkGenerating(r)
    \/ \E r \in RequestIds : LoadAndAssemble(r)
    \/ \E r \in RequestIds : CallProvider(r)
    \/ \E r \in RequestIds : PersistResult(r)
    \/ \E r \in RequestIds : PersistFailure(r)

Spec == Init /\ [][Next]_vars

\* One step of the background attempt started by request r.
AttemptStep(r) ==
    \/ MarkGenerating(r)
    \/ LoadAndAssemble(r)
    \/ CallProvider(r)
    \/ PersistResult(r)
    \/ PersistFailure(r)

\* Every awaited call of an attempt eventually returns or raises, and the
\* event loop then runs the continuation.
FairSpec == Spec /\ \A r \in RequestIds : WF_vars(AttemptStep(r))

\* ------------------------------------------------------------------ claims
\* An admitted attempt that has not returned yet.
InFlight(r) == req[r].resp = "accepted" /\ req[r].pc # "done"

\* An admitted attempt whose background work has done nothing beyond the
\* transition to generating.
NotProgressed(r) == req[r].resp = "accepted" /\ req[r].pc \in {"mark", "load"}

\* Request r reads the model in this step.
Reads(r) == req[r].pc = "idle" /\ req'[r].pc # "idle"

\* C1: for every model id, at most one admitted, unfinished generation
\* attempt exists at any time.
AtMostOneAttemptInFlight ==
    \A r1, r2 \in RequestIds :
        (r1 # r2 /\ InFlight(r1) /\ InFlight(r2)) => req[r1].id # req[r2].id

\* C2: a generate request on a draft that arrives after an earlier request
\* for the same model was accepted, and before that request's background
\* work has progressed, is answered with a conflict and admits no attempt.
SecondCallConflicts ==
    [][\A r1, r2 \in RequestIds :
        (/\ NotProgressed(r1)
         /\ req[r1].seen = "draft"
         /\ Reads(r2)
         /\ req'[r2].id = req[r1].id)
        => req'[r2].resp = "conflict"]_vars

\* C3: a generate request that reads status generating is answered with a
\* conflict in that step and changes nothing: the model row, the usage
\* counters and every other request and attempt are as before, no attempt is
\* scheduled, the rejected request never acts again, and the attempt that
\* is in flight still returns.
ConflictChangesNothing ==
    /\ [][\A r \in RequestIds :
            /\ (Reads(r) /\ req'[r].seen = "generating") =>
                    /\ req'[r].resp = "conflict"
                    /\ req'[r].pc = "done"
                    /\ threatModels' = threatModels
                    /\ userUsage' = userUsage
                    /\ generationJobs' = generationJobs
                    /\ \A q \in RequestIds \ {r} : req'[q] = req[q]
            /\ req[r].resp = "conflict" => req'[r] = req[r]]_vars
    /\ \A r, q \in RequestIds :
            (req[r].resp = "conflict" /\ InFlight(q) /\ req[q].id = req[r].id)
                ~> (req[q].pc = "done")

\* C3 witness: a request was rejected with a conflict while the attempt of
\* another request for the same model is in flight.
ConflictWitness ==
    \E r, q \in RequestIds :
        /\ req[r].resp = "conflict"
        /\ InFlight(q)
        /\ req[q].id = req[r].id
        /\ threatModels[req[r].id].status = "generating"

ResultVisibleOnlyWhenCompleted ==
    \A r \in RequestIds :
        (req[r].pc # "done" /\ req[r].result.threats.defined) =>
            threatModels[req[r].id].threats # req[r].result.threats.value

\* C6: the failure write of an attempt takes the model from generating to
\* failed and stores the raised exception's message verbatim.
FailureGoesFromGeneratingToFailed ==
    [][\A r \in RequestIds :
        (req[r].pc \in {"catch", "fail"} /\ req'[r].pc = "done") =>
            /\ threatModels[req[r].id].status = "generating"
            /\ threatModels'[req[r].id].status = "failed"
            /\ threatModels'[req[r].id].generationError = req[r].error]_vars

\* C7: threats, summary and recommendations of a model change only in a step
\* that also writes status completed.
ResultChangesOnlyOnCompletion ==
    [][\A m \in ModelIds :
        (\/ threatModels'[m].threats # threatModels[m].threats
         \/ threatModels'[m].summary # threatModels[m].summary
         \/ threatModels'[m].recommendations # threatModels[m].recommendations)
        => threatModels'[m].status = "completed"]_vars

\* C8: once a generate request on a draft has been answered with accepted,
\* a status read no longer returns draft.
AcceptedAfterGeneratingRecorded ==
    \A r \in RequestIds :
        (req[r].resp = "accepted" /\ req[r].seen = "draft") =>
            GenerationStatus(req[r].id).status # "draft"

\* The status changes of the lifecycle.
AllowedTransitions ==
    {<<"draft", "generating">>, <<"completed", "generating">>,
     <<"failed", "generating">>, <<"generating", "completed">>,
     <<"generating", "failed">>}

\* C9: every change of a model's status is one of draft->generating,
\* completed->generating, failed->generating, generating->completed,
\* generating->failed.
OnlyLifecycleTransitions ==
    [][\A m \in ModelIds :
        (threatModels[m].exists /\ threatModels'[m].status # threatModels[m].status)
        => <<threatModels[m].status, threatModels'[m].status>> \in AllowedTransitions]_vars

\* C10: a model whose status is failed has a non-empty generationError.
FailedHasError ==
    \A m \in ModelIds :
        threatModels[m].status = "failed" =>
            threatModels[m].generationError \notin {NULL, ""}

\* C10 witness: a failed model.
FailedWitness == \E m \in ModelIds : threatModels[m].status = "failed"

\* C11: a model whose status is generating has generationError null, and
\* while an admitted re-generation of a failed model is in flight a status
\* poll does not return an error (the one of the earlier attempt).
GeneratingClearsError ==
    /\ \A m \in ModelIds :
            threatModels[m].status = "generating" =>
                threatModels[m].generationError = NULL
    /\ \A r \in RequestIds :
            (InFlight(r) /\ req[r].seen = "failed") =>
                GenerationStatus(req[r].id).error = NULL

\* ------------------------------------------------------------- threat edits
\* threats.findIndex((t) => t.id === threatId); 0 stands for -1
FindIndex(threats, threatId) ==
    IF \E i \in 1..Len(threats) : threats[i].id = threatId
    THEN CHOOSE i \in 1..Len(threats) :
            /\ threats[i].id = threatId
            /\ \A j \in 1..(i - 1) : threats[j].id # threatId
    ELSE 0

\* PATCH /:id/threats/:threatId, the assignments to the threat found: the
\* fields of the body that are present, then riskScore in every case.
PatchedThreat(threat, body) ==
    LET likelihood == SetIfDefined(threat.likelihood, body.likelihood)
        impact == SetIfDefined(threat.impact, body.impact)
    IN [threat EXCEPT !.likelihood = likelihood,
                      !.impact = impact,
                      !.severity = SetIfDefined(@, body.severity),
                      !.riskScore = likelihood * impact]

\* PATCH /:id/threats/:threatId: select with the ownership check, the
\* search for the threat and the assignments in memory
PatchThreatRead(r, m, u, threatId, body) ==
    /\ IsNext(r)
    /\ LET model == threatModels[m]
           threatIndex == FindIndex(model.threats, threatId)
       IN req' = [req EXCEPT ![r] =
            IF ~model.exists \/ model.userId # u
                THEN [IdleReq EXCEPT !.pc = "done", !.via = "patch",
                                     !.resp = "not_found"]
            ELSE IF threatIndex = 0
                THEN [IdleReq EXCEPT !.pc = "done", !.via = "patch", !.id = m,
                                     !.resp = "threat_not_found"]
            ELSE [IdleReq EXCEPT !.pc = "write", !.via = "patch", !.id = m,
                                 !.threatId = threatId, !.body = body,
                                 !.snapshot =
                                    [model.threats EXCEPT ![threatIndex] =
                                        PatchedThreat(@, body)]]]
    /\ UNCHANGED <<threatModels, userUsage, generationJobs>>
    /\ UNCHANGED <<contextFiles, jiraTickets>>

\* PATCH /:id/threats/:threatId: update ... set threats, and the response
PatchThreatWrite(r) ==
    /\ req[r].pc = "write"
    /\ req[r].via = "patch"
    /\ threatModels' = [threatModels EXCEPT ![req[r].id].threats = req[r].snapshot]
    /\ req' = [req EXCEPT ![r] =
            [Finished(@) EXCEPT !.resp = "ok", !.threatId = req[r].threatId,
                                !.body = req[r].body]]
    /\ UNCHANGED <<userUsage, generationJobs>>
    /\ UNCHANGED <<contextFiles, jiraTickets>>

\* ThreatModelService.updateThreat, the map over model.threats: every threat
\* with the id takes the fields of updates that are present; riskScore is
\* computed when likelihood or impact is present.
updateThreat(threats, threatId, updates) ==
    [i \in 1..Len(threats) |->
        LET t == threats[i] IN
        IF t.id = threatId
        THEN [t EXCEPT !.severity = SetIfDefined(@, updates.severity),
                       !.likelihood = SetIfDefined(@, updates.likelihood),
                       !.impact = SetIfDefined(@, updates.impact),
                       !.riskScore =
                            IF updates.likelihood.defined \/ updates.impact.defined
                            THEN SetIfDefined(t.likelihood, updates.likelihood)
                                 * SetIfDefined(t.impact, updates.impact)
                            ELSE @]
        ELSE t]

\* updateThreat: getById and the map
UpdateThreatRead(r, m, threatId, updates) ==
    /\ IsNext(r)
    /\ req' = [req EXCEPT ![r] =
            IF ~threatModels[m].exists
            THEN [IdleReq EXCEPT !.pc = "done", !.via = "service",
                                 !.resp = "not_found"]
            ELSE [IdleReq EXCEPT !.pc = "write", !.via = "service", !.id = m,
                                 !.threatId = threatId, !.body = updates,
                                 !.snapshot =
                                    updateThreat(threatModels[m].threats,
                                                 threatId, updates)]]
    /\ UNCHANGED <<threatModels, userUsage, generationJobs>>
    /\ UNCHANGED <<contextFiles, jiraTickets>>

\* updateThreat: update ... set threats; the model is read again and returned
UpdateThreatWrite(r) ==
    /\ req[r].pc = "write"
    /\ req[r].via = "service"
    /\ threatModels' = [threatModels EXCEPT ![req[r].id].threats = req[r].snapshot]
    /\ req' = [req EXCEPT ![r] =
            [Finished(@) EXCEPT !.resp = "ok", !.threatId = req[r].threatId,
                                !.body = req[r].body]]
    /\ UNCHANGED <<userUsage, generationJobs>>
    /\ UNCHANGED <<contextFiles, jiraTickets>>

\* PATCH /:id/threats/:threatId/mitigations/:mitigationId: select with the
\* ownership check, the search for the threat and its mitigation, and the
\* assignment in memory
PatchMitigationRead(r, m, u, threatId, mitigationId, status) ==
    /\ IsNext(r)
    /\ LET model == threatModels[m]
           threatIndex == FindIndex(model.threats, threatId)
           mitigationIndex ==
                IF threatIndex = 0 THEN 0
                ELSE FindIndex(model.threats[threatIndex].mitigations, mitigationId)
       IN req' = [req EXCEPT ![r] =
            IF ~model.exists \/ model.userId # u
                THEN [IdleReq EXCEPT !.pc = "done", !.via = "mitigation",
                                     !.resp = "not_found"]
            ELSE IF threatIndex = 0
                THEN [IdleReq EXCEPT !.pc = "done", !.via = "mitigation",
                                     !.id = m, !.resp = "threat_not_found"]
            ELSE IF mitigationIndex = 0
                THEN [IdleReq EXCEPT !.pc = "done", !.via = "mitigation",
                                     !.id = m, !.resp = "mitigation_not_found"]
            ELSE [IdleReq EXCEPT !.pc = "writeMitigation", !.via = "mitigation",
                                 !.id = m, !.threatId = threatId,
                                 !.mitigationId = mitigationId, !.status = status,
                                 !.snapshot =
                                    [model.threats EXCEPT
                                        ![threatIndex].mitigations[mitigationIndex].status
                                            = status]]]
    /\ UNCHANGED <<threatModels, userUsage, generationJobs>>
    /\ UNCHANGED <<contextFiles, jiraTickets>>

\* PATCH /:id/threats/:threatId/mitigations/:mitigationId: update ... set
\* threats, and the response
PatchMitigationWrite(r) ==
    /\ req[r].pc = "writeMitigation"
    /\ req[r].via = "mitigation"
    /\ threatModels' = [threatModels EXCEPT ![req[r].id].threats = req[r].snapshot]
    /\ req' = [req EXCEPT ![r] =
            [Finished(@) EXCEPT !.resp = "ok", !.threatId = req[r].threatId,
                                !.mitigationId = req[r].mitigationId,
                                !.status = req[r].status]]
    /\ UNCHANGED <<userUsage, generationJobs>>
    /\ UNCHANGED <<contextFiles, jiraTickets>>

\* ThreatModelService.updateMitigation, the map over model.threats: in every
\* threat with the id, every mitigation with the id takes the updates.
updateMitigation(threats, threatId, mitigationId, status) ==
    [i \in 1..Len(threats) |->
        LET t == threats[i] IN
        IF t.id = threatId
        THEN [t EXCEPT !.mitigations =
                [j \in 1..Len(t.mitigations) |->
                    IF t.mitigations[j].id = mitigationId
                    THEN [t.mitigations[j] EXCEPT !.status = status]
                    ELSE t.mitigations[j]]]
        ELSE t]

\* updateMitigation: getById and the map
UpdateMitigationRead(r, m, threatId, mitigationId, status) ==
    /\ IsNext(r)
    /\ req' = [req EXCEPT ![r] =
            IF ~threatModels[m].exists
            THEN [IdleReq EXCEPT !.pc = "done", !.via = "serviceMitigation",
                                 !.resp = "not_found"]
            ELSE [IdleReq EXCEPT !.pc = "writeMitigation",
                                 !.via = "serviceMitigation", !.id = m,
                                 !.threatId = threatId,
                                 !.mitigationId = mitigationId, !.status = status,
                                 !.snapshot =
                                    updateMitigation(threatModels[m].threats,
                                                     threatId, mitigationId, status)]]
    /\ UNCHANGED <<threatModels, userUsage, generationJobs>>
    /\ UNCHANGED <<contextFiles, jiraTickets>>

\* updateMitigation: update ... set threats; the model is read again and
\* returned
UpdateMitigationWrite(r) ==
    /\ req[r].pc = "writeMitigation"
    /\ req[r].via = "serviceMitigation"
    /\ threatModels' = [threatModels EXCEPT ![req[r].id].threats = req[r].snapshot]
    /\ req' = [req EXCEPT ![r] =
            [Finished(@) EXCEPT !.resp = "ok", !.threatId = req[r].threatId,
                                !.mitigationId = req[r].mitigationId,
                                !.status = req[r].status]]
    /\ UNCHANGED <<userUsage, generationJobs>>
    /\ UNCHANGED <<contextFiles, jiraTickets>>

\* --------------------------------------------- pipeline with its contents
\* Files of a model, as the storage and the network treat them.
Diagram == File("diagram.png", "image/png", TRUE, TRUE, TRUE)
DiagramGone == File("diagram.png", "image/png", TRUE, TRUE, FALSE)
Scan == File("scan.bmp", "image/bmp", TRUE, TRUE, TRUE)
Design == File("design.pdf", "application/pdf", TRUE, TRUE, TRUE)
DesignNoUrl == File("design.pdf", "application/pdf", FALSE, TRUE, TRUE)
Notes == File("notes.md", "text/markdown", TRUE, TRUE, TRUE)
NotesUnreadable == File("notes.md", "text/markdown", TRUE, FALSE, TRUE)
Archive == File("archive.zip", "application/zip", TRUE, TRUE, TRUE)

StoredFiles ==
    {Diagram, DiagramGone, Scan, Design, DesignNoUrl, Notes, NotesUnreadable,
     Archive}

\* What the selects of context_files and jira_tickets return for a model:
\* every list of at most MaxFiles files, without tickets or with two.
Contexts ==
    {[files |-> files, tickets |-> tickets] :
        files \in UNION {[1..n -> StoredFiles] : n \in 0..MaxFiles},
        tickets \in {<< >>, <<"SEC-1", "SEC-2">>}}

\* Threat lists of provider responses.
Proposed(id) == <<Mitigation(id, "proposed")>>

FiveThreats ==
    <<Threat(1, "title", 5, 5, 25, "critical", Proposed(11)),
      Threat(2, "title", 4, 5, 20, "critical", Proposed(21)),
      Threat(3, "title", 3, 5, 15, "high", << >>),
      Threat(4, "title", 2, 5, 10, "medium", << >>),
      Threat(5, "title", 1, 5, 5, "low", << >>)>>

\* six threats, not in the order of their scores, two of them with score 5
SixThreats ==
    <<Threat(1, "title", 1, 5, 5, "low", Proposed(11)),
      Threat(2, "title", 5, 5, 25, "critical", Proposed(21)),
      Threat(3, "title", 5, 1, 5, "low", << >>),
      Threat(4, "title", 4, 5, 20, "critical", << >>),
      Threat(5, "title", 3, 5, 15, "high", << >>),
      Threat(6, "title", 2, 5, 10, "medium", << >>)>>

\* a score that is not the product, a severity that is not the one of the
\* score, and a likelihood above 5
Inconsistent ==
    <<Threat(1, "title", 2, 3, 25, "info", Proposed(11)),
      Threat(2, "title", 7, 1, 7, "critical", << >>)>>

\* a threat without title
Incomplete ==
    <<Threat(1, NULL, 2, 3, 6, "low", Proposed(11)),
      Threat(2, "title", 5, 4, 20, "critical", << >>)>>

\* two threats and a mitigation without id, the mitigation implemented already
Unidentified ==
    <<Threat(NoId, "title", 5, 5, 25, "critical",
             <<Mitigation(NoId, "implemented")>>),
      Threat(NoId, "title", 4, 5, 20, "critical", << >>)>>

ThreatLists ==
    {<< >>, FiveThreats, SixThreats, Inconsistent, Incomplete, Unidentified}

\* Texts the provider may answer with to attempt r.
Answer(r, threats) ==
    [threats |-> Defined(threats),
     summary |-> Defined("summary " \o ToString(r)),
     recommendations |-> Defined(<< >>)]

ProviderTexts(r) ==
    {JsonText(Answer(r, threats)) : threats \in ThreatLists}
    \cup {WrappedText(Answer(r, threats)) : threats \in ThreatLists}
    \cup {ProseText}

\* Bodies of threat edits, and the threat ids they address.
EditBodies ==
    {[severity |-> Undefined, likelihood |-> Defined(5), impact |-> Undefined],
     [severity |-> Defined("high"), likelihood |-> Undefined, impact |-> Undefined],
     [severity |-> Undefined, likelihood |-> Defined(2), impact |-> Defined(2)]}
EditThreatIds == {1, 2, 9}

\* The mitigations that mitigation edits address, and the status they ask for.
EditMitigationIds == {11, 21}
EditStatuses == {"accepted"}

AssembleContext(r) == LoadAndAssembleFrom(r, Providers)

\* CompleteAndParse with a retry: after a failed round trip complete is
\* called again.
CompleteAndParseRetrying(r) ==
    \/ CallProviderFrom(r, ProviderTexts(r))
    \/ /\ req[r].pc = "call"
       /\ req[r].via = "route"
       /\ req[r].calls < 2
       /\ req' = [req EXCEPT ![r].calls = @ + 1]
       /\ UNCHANGED <<threatModels, userUsage, generationJobs>>
       /\ UNCHANGED <<contextFiles, jiraTickets>>

CompleteAndParse(r) == CallProviderFrom(r, ProviderTexts(r))

\* One attempt, from the point where its update to generating has been
\* applied: the model was created by u1 and request 1 was admitted on the
\* draft.
InitAttempt ==
    /\ threatModels = [m \in ModelIds |->
            IF m \in CreatedIds
            THEN [NoRow EXCEPT !.exists = TRUE, !.userId = "u1",
                               !.status = "generating",
                               !.generationStartedAt = Now(1)]
            ELSE NoRow]
    /\ userUsage = [u \in Users |->
            IF u = "u1"
            THEN [exists |-> TRUE, generationsUsed |-> 1,
                  generationsLimit |-> DEFAULT_GENERATION_LIMIT]
            ELSE NoUsage]
    /\ generationJobs = [m \in ModelIds |-> NoJob]
    /\ \E c \in Contexts :
            /\ contextFiles = [m \in ModelIds |->
                    IF m \in CreatedIds THEN c.files ELSE << >>]
            /\ jiraTickets = [m \in ModelIds |->
                    IF m \in CreatedIds THEN c.tickets ELSE << >>]
    /\ req = [r \in RequestIds |->
            IF r = 1
            THEN [Admit(1, "m1", "u1", "draft", 0) EXCEPT
                    !.pc = "load", !.writes = <<"generating">>]
            ELSE IdleReq]

NextAttempt ==
    \/ \E r \in RequestIds : AssembleContext(r)
    \/ \E r \in RequestIds : CompleteAndParse(r)
    \/ \E r \in RequestIds : PersistResult(r)
    \/ \E r \in RequestIds : PersistFailure(r)

SpecAttempt == InitAttempt /\ [][NextAttempt]_vars

\* Edits and re-generations of a model that an earlier attempt completed.
InitEdits ==
    /\ \E threats \in {FiveThreats, Inconsistent} :
            threatModels = [m \in ModelIds |->
                IF m \in CreatedIds
                THEN [NoRow EXCEPT !.exists = TRUE, !.userId = "u1",
                                   !.status = "completed", !.threats = threats,
                                   !.summary = "summary 0"]
                ELSE NoRow]
    /\ userUsage = [u \in Users |->
            IF u = "u1"
            THEN [exists |-> TRUE, generationsUsed |-> 1,
                  generationsLimit |-> DEFAULT_GENERATION_LIMIT]
            ELSE NoUsage]
    /\ generationJobs = [m \in ModelIds |-> NoJob]
    /\ contextFiles = [m \in ModelIds |-> << >>]
    /\ jiraTickets = [m \in ModelIds |-> << >>]
    /\ req = [r \in RequestIds |-> IdleReq]

\* Texts the provider may answer with to a re-generation.
EditTexts(r) == {JsonText(Answer(r, SixThreats))}

Regenerate(r) == CallProviderFrom(r, EditTexts(r))

NextEdits ==
    \/ \E r \in RequestIds, m \in ModelIds, u \in Users : GenerateRead(r, m, u)
    \/ \E r \in RequestIds : MarkGenerating(r)
    \/ \E r \in RequestIds : LoadAndAssemble(r)
    \/ \E r \in RequestIds : Regenerate(r)
    \/ \E r \in RequestIds : PersistResult(r)
    \/ \E r \in RequestIds : PersistFailure(r)
    \/ \E r \in RequestIds, m \in ModelIds, u \in Users,
          threatId \in EditThreatIds, body \in EditBodies :
            PatchThreatRead(r, m, u, threatId, body)
    \/ \E r \in RequestIds : PatchThreatWrite(r)
    \/ \E r \in RequestIds, m \in ModelIds,
          threatId \in EditThreatIds, updates \in EditBodies :
            UpdateThreatRead(r, m, threatId, updates)
    \/ \E r \in RequestIds : UpdateThreatWrite(r)
    \/ \E r \in RequestIds, m \in ModelIds, u \in Users, threatId \in {1, 2},
          mitigationId \in EditMitigationIds, status \in EditStatuses :
            PatchMitigationRead(r, m, u, threatId, mitigationId, status)
    \/ \E r \in RequestIds : PatchMitigationWrite(r)
    \/ \E r \in RequestIds, m \in ModelIds, status \in EditStatuses :
            UpdateMitigationRead(r, m, 1, 11, status)
    \/ \E r \in RequestIds : UpdateMitigationWrite(r)

SpecEdits == InitEdits /\ [][NextEdits]_vars

\* ------------------------------------------------- claims on the contents
\* The threats of the models that are completed.
Persisted(m) ==
    IF threatModels[m].status = "completed" THEN threatModels[m].threats ELSE << >>

\* C12: the threat list persisted at completion has at most 5 threats and is
\* in descending order of riskScore.
PersistedTopFiveSorted ==
    \A m \in ModelIds :
        /\ Len(Persisted(m)) <= 5
        /\ \A i, j \in 1..Len(Persisted(m)) :
                i < j => Persisted(m)[i].riskScore >= Persisted(m)[j].riskScore

\* The mitigations of the persisted threats of model m, in order.
RECURSIVE MitigationsOf(_)
MitigationsOf(threats) ==
    IF threats = << >> THEN << >>
    ELSE Head(threats).mitigations \o MitigationsOf(Tail(threats))

\* C22: after a completed generation every persisted threat and mitigation
\* has an id, the ids are pairwise distinct within the model, and every
\* mitigation is proposed.
PersistedIdsDistinctProposed ==
    \A m \in ModelIds :
        LET threats == Persisted(m)
            mitigations == MitigationsOf(threats)
        IN /\ \A i \in 1..Len(threats) : threats[i].id # NoId
           /\ \A i, j \in 1..Len(threats) :
                    i # j => threats[i].id # threats[j].id
           /\ \A i \in 1..Len(mitigations) :
                    /\ mitigations[i].id # NoId
                    /\ mitigations[i].status = "proposed"
           /\ \A i, j \in 1..Len(mitigations) :
                    i # j => mitigations[i].id # mitigations[j].id

\* C13: every persisted threat has likelihood and impact in 1..5 and
\* riskScore equal to their product.
RiskScoreIsProduct ==
    \A m \in ModelIds : \A i \in 1..Len(threatModels[m].threats) :
        LET t == threatModels[m].threats[i] IN
        /\ t.likelihood \in 1..5
        /\ t.impact \in 1..5
        /\ t.riskScore \in 1..25
        /\ t.riskScore = t.likelihood * t.impact

\* The severity that the thresholds give to a score.
SeverityByThreshold(score) ==
    CASE score >= 20 -> "critical"
      [] score \in 15..19 -> "high"
      [] score \in 10..14 -> "medium"
      [] score \in 5..9 -> "low"
      [] OTHER -> "info"

\* C14: at completion the severity of each persisted threat is the one the
\* thresholds give to its riskScore, whatever severity the response had; the
\* function of the code gives critical, critical, high, medium, low to 25,
\* 20, 15, 10, 5.
SeverityDerivedFromScore ==
    /\ <<getRiskSeverityFromScore(25), getRiskSeverityFromScore(20),
         getRiskSeverityFromScore(15), getRiskSeverityFromScore(10),
         getRiskSeverityFromScore(5)>>
            = <<"critical", "critical", "high", "medium", "low">>
    /\ \A m \in ModelIds : \A i \in 1..Len(Persisted(m)) :
            Persisted(m)[i].severity = SeverityByThreshold(Persisted(m)[i].riskScore)

\* C15: a response with a threat that lacks a required field is never
\* accepted: no attempt goes on to persist it and no model holds any of its
\* threats.
IncompleteResponseRejected ==
    /\ \A r \in RequestIds :
            req[r].result.threats.defined =>
                \A i \in 1..Len(req[r].result.threats.value) :
                    req[r].result.threats.value[i].title # NULL
    /\ \A m \in ModelIds : \A i \in 1..Len(threatModels[m].threats) :
            threatModels[m].threats[i].title # NULL

\* A file that has a type the provider takes, a URL, and, when it is text,
\* readable bytes.
Convertible(file, provider) ==
    /\ file.url
    /\ \/ file.mimeType \in getSupportedImageTypes(provider)
       \/ file.mimeType = "application/pdf" /\ supportsPDF(provider)
       \/ /\ file.mimeType \in TextMimeTypes \cup {"application/json"}
          /\ file.bytes

\* The names of the files of the blocks made from files, in their order.
FileRefs(content) ==
    LET IsFileBlock(b) == b.role = "file"
        blocks == SelectSeq(content, IsFileBlock)
    IN [i \in 1..Len(blocks) |-> blocks[i].ref]

\* The names of the convertible files, in their order.
ConvertibleNames(files, provider) ==
    LET IsConvertible(f) == Convertible(f, provider)
        kept == SelectSeq(files, IsConvertible)
    IN [i \in 1..Len(kept) |-> kept[i].name]

\* C16: assembly never raises because of a file, and the assembled content
\* has the manifest, when there are files, and one block for each
\* convertible file, in the order of the files.
AssemblyAbsorbsFileErrors ==
    \A r \in RequestIds :
        /\ req[r].error # StorageErrorMsg
        /\ req[r].pc = "call" =>
            /\ (Len(req[r].files) > 0) =
                    (\E i \in 1..Len(req[r].content) :
                        req[r].content[i].role = "manifest")
            /\ FileRefs(req[r].content)
                    = ConvertibleNames(req[r].files, req[r].provider)

\* C16 witness: three files, the second of an unsupported type, assembled
\* into the manifest and the blocks of the first and the third.
DegradedAssemblyWitness ==
    \E r \in RequestIds :
        /\ req[r].pc = "call"
        /\ req[r].files = <<Diagram, Archive, Notes>>
        /\ FileRefs(req[r].content) = <<"diagram.png", "notes.md">>

\* C17: no attempt fails because a file or a URL could not be read or
\* fetched.
NoFailureFromContextItem ==
    /\ \A r \in RequestIds : req[r].error \notin {FetchErrorMsg, StorageErrorMsg}
    /\ \A m \in ModelIds :
            threatModels[m].generationError \notin {FetchErrorMsg, StorageErrorMsg}

\* The terminal status writes among the writes of an attempt.
TerminalWrites(writes) ==
    {i \in 1..Len(writes) : writes[i] \in {"completed", "failed"}}

ThreatEditFrame ==
    [][\A r \in RequestIds :
        (req[r].pc = "write" /\ req'[r].pc = "done") =>
            LET before == threatModels[req[r].id].threats
                after == threatModels'[req[r].id].threats
                body == req[r].body
            IN /\ Len(after) = Len(before)
               /\ \A i \in 1..Len(before) :
                    IF i \in 1..Len(after) /\ before[i].id = req[r].threatId
                    THEN /\ after[i].id = before[i].id
                         /\ after[i].title = before[i].title
                         /\ after[i].mitigations = before[i].mitigations
                         /\ after[i].likelihood =
                                SetIfDefined(before[i].likelihood, body.likelihood)
                         /\ after[i].impact =
                                SetIfDefined(before[i].impact, body.impact)
                         /\ after[i].severity =
                                SetIfDefined(before[i].severity, body.severity)
                         /\ (body.likelihood.defined \/ body.impact.defined) =>
                                after[i].riskScore
                                    = after[i].likelihood * after[i].impact
                    ELSE i \in 1..Len(after) /\ after[i] = before[i]]_vars

\* ---------------------------------------------- GenerationService pipeline
\* The pipeline entered through GenerationService.startGeneration.
NextService ==
    \/ \E m \in CreatedIds, u \in Owners : CreateThreatModel(m, u)
    \/ \E m \in ModelIds, u \in Users, b \in BOOLEAN : UpdateThreatModel(m, u, b)
    \/ \E r \in RequestIds, m \in ModelIds : ServiceStart(r, m)
    \/ \E r \in RequestIds : ServiceMarkGenerating(r)
    \/ \E r \in RequestIds : ServiceLoad(r)
    \/ \E r \in RequestIds : ServiceBuildContext(r)
    \/ \E r \in RequestIds : ServiceCall(r)
    \/ \E r \in RequestIds : ServiceUpdateThreats(r)
    \/ \E r \in RequestIds : ServiceUpdateStatus(r)
    \/ \E r \in RequestIds : ServiceCatch(r)
    \/ \E r \in RequestIds : ServiceFailed(r)

InitService ==
    /\ threatModels = [m \in ModelIds |-> NoRow]
    /\ userUsage = [u \in Users |-> NoUsage]
    /\ generationJobs = [m \in ModelIds |-> NoJob]
    /\ contextFiles = [m \in ModelIds |-> << >>]
    /\ jiraTickets = [m \in ModelIds |-> << >>]
    /\ req = [r \in RequestIds |-> IdleReq]

SpecService == InitService /\ [][NextService]_vars

\* ------------------------------------------------- Decoding provider texts
\* The segments a text of attempt r is made of, and every text of at most
\* MaxSegments segments.
Segments(r) ==
    {Prose, OpenBrace, CloseBrace,
     Object(Payload(r, "full")), Object(Payload(r, "nothreats"))}

RECURSIVE TextsOfLength(_, _)
TextsOfLength(r, n) ==
    IF n = 0 THEN {<< >>}
    ELSE {Append(text, segment) :
            text \in TextsOfLength(r, n - 1), segment \in Segments(r)}

Texts(r) == UNION {TextsOfLength(r, n) : n \in 1..MaxSegments}

\* provider.complete answers with the text the round trip holds in store,
\* and parseResponse follows.
ParseAnswer(r) ==
    /\ req[r].text # << >>
    /\ CallProviderFrom(r, {req[r].text})

\* Request 1's attempt before its completion call, for a model without
\* files and tickets; text is the answer the provider will give.
InitParse ==
    /\ threatModels = [m \in ModelIds |->
            IF m \in CreatedIds
            THEN [NoRow EXCEPT !.exists = TRUE, !.userId = "u1",
                               !.status = "generating",
                               !.generationStartedAt = Now(1)]
            ELSE NoRow]
    /\ userUsage = [u \in Users |->
            IF u = "u1"
            THEN [exists |-> TRUE, generationsUsed |-> 1,
                  generationsLimit |-> DEFAULT_GENERATION_LIMIT]
            ELSE NoUsage]
    /\ generationJobs = [m \in ModelIds |-> NoJob]
    /\ contextFiles = [m \in ModelIds |-> << >>]
    /\ jiraTickets = [m \in ModelIds |-> << >>]
    /\ \E text \in Texts(1) :
            req = [r \in RequestIds |->
                IF r = 1
                THEN [Admit(1, "m1", "u1", "draft", 0) EXCEPT
                        !.pc = "call", !.writes = <<"generating">>,
                        !.provider = "openai",
                        !.content = BuildContent(<< >>, << >>, "openai").blocks,
                        !.text = text]
                ELSE IdleReq]

NextParse ==
    \/ \E r \in RequestIds : ParseAnswer(r)
    \/ \E r \in RequestIds : PersistResult(r)
    \/ \E r \in RequestIds : PersistFailure(r)

SpecParse == InitParse /\ [][NextParse]_vars

\* What decoding the first balanced brace span of a text gives: the text
\* itself when it is one object, else the first object when no lone brace
\* opens before it.
FirstBalancedSpan(text) ==
    LET opens == {i \in 1..Len(text) : HasOpenBrace(text[i])} IN
    IF opens = {}
    THEN [ok |-> FALSE, value |-> NoPayload]
    ELSE LET first == CHOOSE i \in opens : \A k \in opens : i <= k IN
         IF text[first].kind = "object"
         THEN [ok |-> TRUE, value |-> text[first].body]
         ELSE [ok |-> FALSE, value |-> NoPayload]

\* C21: a provider text decodes to its first balanced brace span whatever
\* follows that span, and raises a parse error only when the text holds no
\* span that decodes.
FirstBalancedSpanDecoded ==
    \A r \in RequestIds :
        (/\ req[r].text # << >>
         /\ req[r].pc \in {"persist", "catch"}
         /\ req[r].error \notin {ProviderErrorMsg, DbErrorMsg})
        => LET expected == FirstBalancedSpan(req[r].text) IN
           IF expected.ok
           THEN req[r].pc = "persist" /\ req[r].result = expected.value
           ELSE req[r].pc = "catch"
                /\ req[r].error \in {ParseErrorMsg, SyntaxErrorMsg}

\* ------------------------------------------------ claims on the assembly
\* The files of request r that have a block of the given type in its content.
FilesWithBlock(r, type) ==
    {k \in 1..Len(req[r].files) :
        \E i \in 1..Len(req[r].content) :
            /\ req[r].content[i].type = type
            /\ req[r].content[i].role = "file"
            /\ req[r].content[i].ref = req[r].files[k].name}

IsTextual(file) ==
    \/ file.mimeType \in TextMimeTypes
    \/ file.mimeType = "application/json"
    \/ file.name \in TextFileNames

\* C23: every content block handed to provider.complete is of a kind the
\* provider accepts: a document only when the provider supports PDF, an
\* image only when the file's MIME type is one the provider supports, and a
\* file that is neither and is not textual has no block.
ContentAcceptedByProvider ==
    \A r \in RequestIds :
        req[r].pc = "call" =>
            LET content == req[r].content
                provider == req[r].provider
                files == req[r].files
            IN /\ \A i \in 1..Len(content) :
                    /\ supportsContentType(provider, content[i].type)
                    /\ content[i].type = "document" => provider = "anthropic"
                    /\ content[i].type = "image" =>
                            \E k \in 1..Len(files) :
                                /\ files[k].name = content[i].ref
                                /\ files[k].mimeType \in
                                        {"image/jpeg", "image/png", "image/gif",
                                         "image/webp"}
               /\ \A k \in 1..Len(files) :
                    (/\ files[k].mimeType \notin
                            {"image/jpeg", "image/png", "image/gif", "image/webp"}
                     /\ ~(files[k].mimeType = "application/pdf"
                          /\ provider = "anthropic")
                     /\ ~IsTextual(files[k]))
                    => \A type \in {"text", "image", "document"} :
                            k \notin FilesWithBlock(r, type)

\* An attempt about to call a provider without PDF support for a model with
\* a PDF, an image the provider does not support and an image it supports:
\* only the last has a block.
UnsupportedFilesDroppedWitness ==
    \E r \in RequestIds :
        /\ req[r].pc = "call"
        /\ req[r].provider = "openai"
        /\ \E k \in 1..Len(req[r].files) :
                req[r].files[k].mimeType = "application/pdf" /\ req[r].files[k].url
        /\ \E k \in 1..Len(req[r].files) : req[r].files[k].mimeType = "image/bmp"
        /\ FilesWithBlock(r, "image") # {}

\* What each block of a content sequence renders.
Rendered(content) ==
    [i \in 1..Len(content) |-> <<content[i].role, content[i].ref>>]

TicketSection(tickets) ==
    IF Len(tickets) > 0
    THEN <<(<<"ticketHeader", NULL>>)>>
         \o [i \in 1..Len(tickets) |-> <<"ticket", tickets[i]>>]
    ELSE << >>

\* The file section with one block for each converted file.
FileSection(files, provider) ==
    LET names == ConvertibleNames(files, provider) IN
    IF Len(files) > 0
    THEN <<(<<"manifest", NULL>>)>>
         \o [i \in 1..Len(names) |-> <<"file", names[i]>>]
    ELSE << >>

\* The file section with a label ahead of the block of each converted file.
LabelledFileSection(files, provider) ==
    LET names == ConvertibleNames(files, provider) IN
    IF Len(files) > 0
    THEN <<(<<"manifest", NULL>>)>>
         \o [i \in 1..(2 * Len(names)) |->
                IF i % 2 = 1 THEN <<"label", names[(i + 1) \div 2]>>
                ELSE <<"file", names[i \div 2]>>]
    ELSE << >>

\* C24 as stated: the content is the context block, the ticket header and
\* the tickets in their order, the manifest and the file blocks in their
\* order, and the instruction block, and nothing else.
AssembledInFixedOrder ==
    \A r \in RequestIds :
        req[r].pc = "call" =>
            Rendered(req[r].content)
                = <<(<<"context", NULL>>)>>
                  \o TicketSection(req[r].tickets)
                  \o FileSection(req[r].files, req[r].provider)
                  \o <<(<<"instruction", NULL>>)>>

\* C24: the content is the context block, the ticket header and the
\* tickets in their order, the manifest and for each converted file in
\* their order a label and the file's block, and the instruction block;
\* without files and tickets it is the context and the instruction block.
AssembledInFixedOrderWithLabels ==
    \A r \in RequestIds :
        req[r].pc = "call" =>
            /\ Rendered(req[r].content)
                    = <<(<<"context", NULL>>)>>
                      \o TicketSection(req[r].tickets)
                      \o LabelledFileSection(req[r].files, req[r].provider)
                      \o <<(<<"instruction", NULL>>)>>
            /\ (req[r].files = << >> /\ req[r].tickets = << >>)
                    => /\ Len(req[r].content) = 2
                       /\ \A i \in 1..2 : req[r].content[i].type = "text"

\* Two tickets and three files, two of them converted, assembled.
TicketsAndFilesAssembledWitness ==
    \E r \in RequestIds :
        /\ req[r].pc = "call"
        /\ req[r].tickets = <<"SEC-1", "SEC-2">>
        /\ req[r].files = <<Notes, Archive, Diagram>>
        /\ Len(req[r].content) = 10

\* ---------------------------------------------------------------- the quota
\* The first-time generations the user was admitted to before.
UsedBefore == DEFAULT_GENERATION_LIMIT - 1

\* Two drafts of u1, who has one generation left.
InitQuota ==
    /\ threatModels = [m \in ModelIds |->
            [NoRow EXCEPT !.exists = TRUE, !.userId = "u1", !.status = "draft"]]
    /\ userUsage = [u \in Users |->
            IF u = "u1"
            THEN [exists |-> TRUE, generationsUsed |-> UsedBefore,
                  generationsLimit |-> DEFAULT_GENERATION_LIMIT]
            ELSE NoUsage]
    /\ generationJobs = [m \in ModelIds |-> NoJob]
    /\ contextFiles = [m \in ModelIds |-> << >>]
    /\ jiraTickets = [m \in ModelIds |-> << >>]
    /\ req = [r \in RequestIds |-> IdleReq]

NextQuota ==
    \/ \E r \in RequestIds, m \in ModelIds, u \in Users : GenerateRead(r, m, u)
    \/ \E r \in RequestIds : GenerateUsage(r)
    \/ \E r \in RequestIds : GenerateIncrement(r)
    \/ \E r \in RequestIds : MarkGenerating(r)
    \/ \E r \in RequestIds : LoadAndAssemble(r)
    \/ \E r \in RequestIds : CallProvider(r)
    \/ \E r \in RequestIds : PersistResult(r)
    \/ \E r \in RequestIds : PersistFailure(r)

SpecQuota == InitQuota /\ [][NextQuota]_vars

\* The requests admitted to a first-time generation.
AdmittedFirstTime ==
    {r \in RequestIds : req[r].resp = "accepted" /\ req[r].seen = "draft"}

\* C25: for every interleaving of generate requests of one user, the
\* first-time generations admitted never exceed generationsLimit, and
\* generationsUsed never exceeds generationsLimit.
QuotaNeverExceeded ==
    /\ UsedBefore + Cardinality(AdmittedFirstTime) <= DEFAULT_GENERATION_LIMIT
    /\ \A u \in Users :
            userUsage[u].exists =>
                userUsage[u].generationsUsed <= userUsage[u].generationsLimit

\* C26: a rejected generate request leaves generationsUsed unchanged and
\* starts no attempt, an admitted re-generation leaves generationsUsed
\* unchanged, an admitted request for a draft raises it by one, and nothing
\* else changes it.
UsageChangesOnlyOnFirstAdmission ==
    [][LET usedChanges ==
                \E u \in Users :
                    userUsage'[u].generationsUsed # userUsage[u].generationsUsed
       IN
       /\ \A r \in RequestIds :
            LET answeredNow == req[r].resp = NULL /\ req'[r].resp # NULL IN
            /\ (answeredNow /\ req'[r].resp # "accepted")
                    => /\ ~usedChanges
                       /\ threatModels' = threatModels
                       /\ req'[r].pc = "done"
            /\ (answeredNow /\ req'[r].resp = "accepted"
                            /\ req'[r].seen \in {"completed", "failed"})
                    => ~usedChanges
            /\ (answeredNow /\ req'[r].resp = "accepted"
                            /\ req'[r].seen = "draft")
                    => userUsage'[req[r].userId].generationsUsed
                            = userUsage[req[r].userId].generationsUsed + 1
       /\ usedChanges
            => \E r \in RequestIds :
                    /\ req[r].resp = NULL
                    /\ req'[r].resp = "accepted"
                    /\ req'[r].seen = "draft"]_vars

\* ------------------------------------------------ claims on overlapping edits
\* The edits that were answered with success.
SuccessfulEdits ==
    {r \in RequestIds :
        /\ req[r].pc = "done"
        /\ req[r].resp = "ok"
        /\ req[r].via \in {"patch", "service", "mitigation", "serviceMitigation"}}

IsMitigationEdit(r) == req[r].via \in {"mitigation", "serviceMitigation"}

\* What edit r addresses.
Target(r) ==
    IF IsMitigationEdit(r)
    THEN <<"mitigation", req[r].threatId, req[r].mitigationId>>
    ELSE <<"threat", req[r].threatId, NoId>>

\* The persisted threats of the model show what edit r asked for.
Reflected(r) ==
    LET threats == threatModels[req[r].id].threats IN
    \A i \in 1..Len(threats) :
        threats[i].id = req[r].threatId =>
            IF IsMitigationEdit(r)
            THEN \A j \in 1..Len(threats[i].mitigations) :
                    threats[i].mitigations[j].id = req[r].mitigationId
                        => threats[i].mitigations[j].status = req[r].status
            ELSE /\ req[r].body.likelihood.defined
                        => threats[i].likelihood = req[r].body.likelihood.value
                 /\ req[r].body.impact.defined
                        => threats[i].impact = req[r].body.impact.value
                 /\ req[r].body.severity.defined
                        => threats[i].severity = req[r].body.severity.value

\* C27: when two successful edits of one model address different threats,
\* or a threat and a mitigation, and nothing else was requested, the
\* persisted threats show both, whatever the interleaving.
BothEditsReflected ==
    \A r, q \in SuccessfulEdits :
        (/\ r # q
         /\ req[r].id = req[q].id
         /\ Target(r) # Target(q)
         /\ \A other \in RequestIds \ {r, q} : req[other].pc = "idle")
        => Reflected(r) /\ Reflected(q)

\* The ids of a threat list, in order.
ThreatIdsOf(threats) == [i \in 1..Len(threats) |-> threats[i].id]

\* C28: an edit that overlaps a re-generation never puts back the threat
\* list of an earlier attempt: once a re-generation has completed, the
\* threats of the model are the ones it wrote.
EditKeepsRegeneratedList ==
    \A m \in ModelIds :
        (threatModels[m].status = "completed"
            /\ threatModels[m].summary # "summary 0")
        => ThreatIdsOf(threatModels[m].threats) = ThreatIdsOf(SixThreats)

\* -------------------------------------------------------------- share links
\* POST /:id/share: select with the ownership check; a model that has a
\* token is answered with it, for one without a token nanoid(21) is drawn.
ShareRead(r, m, u) ==
    /\ IsNext(r)
    /\ LET model == threatModels[m] IN
       req' = [req EXCEPT ![r] =
            IF ~model.exists \/ model.userId # u
                THEN [IdleReq EXCEPT !.pc = "done", !.via = "share",
                                     !.resp = "not_found"]
            ELSE IF model.shareToken # NoToken
                THEN [IdleReq EXCEPT !.pc = "done", !.via = "share", !.id = m,
                                     !.resp = "shared",
                                     !.shareToken = model.shareToken]
            ELSE [IdleReq EXCEPT !.pc = "writeShare", !.via = "share", !.id = m,
                                 !.shareToken = nanoid(r, 21)]]
    /\ UNCHANGED <<threatModels, userUsage, generationJobs>>
    /\ UNCHANGED <<contextFiles, jiraTickets>>

\* POST /:id/share: update ... set shareToken, isPublic = true, and the
\* response with the token
ShareWrite(r) ==
    /\ req[r].pc = "writeShare"
    /\ threatModels' = [threatModels EXCEPT ![req[r].id] =
            [@ EXCEPT !.shareToken = req[r].shareToken, !.isPublic = TRUE]]
    /\ req' = [req EXCEPT ![r] =
            [Finished(@) EXCEPT !.resp = "shared",
                                !.shareToken = req[r].shareToken]]
    /\ UNCHANGED <<userUsage, generationJobs>>
    /\ UNCHANGED <<contextFiles, jiraTickets>>

\* DELETE /:id/share: select with the ownership check
UnshareRead(r, m, u) ==
    /\ IsNext(r)
    /\ LET model == threatModels[m] IN
       req' = [req EXCEPT ![r] =
            IF ~model.exists \/ model.userId # u
                THEN [IdleReq EXCEPT !.pc = "done", !.via = "unshare",
                                     !.resp = "not_found"]
            ELSE [IdleReq EXCEPT !.pc = "writeUnshare", !.via = "unshare",
                                 !.id = m]]
    /\ UNCHANGED <<threatModels, userUsage, generationJobs>>
    /\ UNCHANGED <<contextFiles, jiraTickets>>

\* DELETE /:id/share: update ... set shareToken = null, isPublic = false
UnshareWrite(r) ==
    /\ req[r].pc = "writeUnshare"
    /\ threatModels' = [threatModels EXCEPT ![req[r].id] =
            [@ EXCEPT !.shareToken = NoToken, !.isPublic = FALSE]]
    /\ req' = [req EXCEPT ![r] = [Finished(@) EXCEPT !.resp = "ok"]]
    /\ UNCHANGED <<userUsage, generationJobs>>
    /\ UNCHANGED <<contextFiles, jiraTickets>>

\* GET /shared/:token: the model with the token, when it is public
GetShared(token) ==
    IF \E m \in ModelIds :
            /\ threatModels[m].exists
            /\ threatModels[m].shareToken = token
            /\ threatModels[m].isPublic
    THEN "ok"
    ELSE "not_found"

\* Two drafts of u1 that were never shared.
InitShare ==
    /\ threatModels = [m \in ModelIds |->
            [NoRow EXCEPT !.exists = TRUE, !.userId = "u1", !.status = "draft"]]
    /\ userUsage = [u \in Users |-> NoUsage]
    /\ generationJobs = [m \in ModelIds |-> NoJob]
    /\ contextFiles = [m \in ModelIds |-> << >>]
    /\ jiraTickets = [m \in ModelIds |-> << >>]
    /\ req = [r \in RequestIds |-> IdleReq]

NextShare ==
    \/ \E m \in ModelIds, u \in Users, b \in BOOLEAN : UpdateThreatModel(m, u, b)
    \/ \E r \in RequestIds, m \in ModelIds, u \in Users : ShareRead(r, m, u)
    \/ \E r \in RequestIds : ShareWrite(r)
    \/ \E r \in RequestIds, m \in ModelIds, u \in Users : UnshareRead(r, m, u)
    \/ \E r \in RequestIds : UnshareWrite(r)

SpecShare == InitShare /\ [][NextShare]_vars

\* The shared route answers a read with the token after the step.
ReadableAfter(token) ==
    \E m \in ModelIds :
        /\ threatModels'[m].exists
        /\ threatModels'[m].shareToken = token
        /\ threatModels'[m].isPublic

\* C29: a token that the share request returned is readable through the
\* shared route until the share link is deleted: in the step that answers
\* the share request the read succeeds, and it keeps succeeding while no
\* unshare request writes.
SharedTokenReadable ==
    [][\A r \in RequestIds :
        /\ (req[r].resp = NULL /\ req'[r].resp = "shared")
                => ReadableAfter(req'[r].shareToken)
        /\ (/\ req[r].resp = "shared"
            /\ GetShared(req[r].shareToken) = "ok"
            /\ \A q \in RequestIds :
                    ~(req[q].pc = "writeUnshare" /\ req'[q].pc = "done"))
                => ReadableAfter(req[r].shareToken)]_vars

\* ------------------------------------------------- attempts for two models
\* Two models of u1 that earlier attempts completed, each with its files
\* and tickets.
InitModels ==
    /\ threatModels = [m \in ModelIds |->
            [NoRow EXCEPT !.exists = TRUE, !.userId = "u1",
                          !.status = "completed", !.threats = FiveThreats,
                          !.summary = "summary 0"]]
    /\ userUsage = [u \in Users |->
            IF u = "u1"
            THEN [exists |-> TRUE, generationsUsed |-> 2,
                  generationsLimit |-> DEFAULT_GENERATION_LIMIT]
            ELSE NoUsage]
    /\ generationJobs = [m \in ModelIds |-> NoJob]
    /\ contextFiles = [m \in ModelIds |->
            IF m = "m1" THEN <<Notes, Archive>> ELSE <<Diagram>>]
    /\ jiraTickets = [m \in ModelIds |->
            IF m = "m1" THEN <<"SEC-1", "SEC-2">> ELSE << >>]
    /\ req = [r \in RequestIds |-> IdleReq]

NextModels ==
    \/ \E r \in RequestIds, m \in ModelIds, u \in Users : GenerateRead(r, m, u)
    \/ \E r \in RequestIds : MarkGenerating(r)
    \/ \E r \in RequestIds : LoadAndAssemble(r)
    \/ \E r \in RequestIds : Regenerate(r)
    \/ \E r \in RequestIds : PersistResult(r)
    \/ \E r \in RequestIds : PersistFailure(r)
    \/ \E r \in RequestIds, m \in ModelIds : ServiceStart(r, m)
    \/ \E r \in RequestIds : ServiceMarkGenerating(r)
    \/ \E r \in RequestIds : ServiceLoad(r)
    \/ \E r \in RequestIds : ServiceBuildContext(r)
    \/ \E r \in RequestIds : ServiceCall(r)
    \/ \E r \in RequestIds : ServiceUpdateThreats(r)
    \/ \E r \in RequestIds : ServiceUpdateStatus(r)
    \/ \E r \in RequestIds : ServiceCatch(r)
    \/ \E r \in RequestIds : ServiceFailed(r)

SpecModels == InitModels /\ [][NextModels]_vars

\* C30: a step of a generation attempt for model A leaves status, threats,
\* summary, recommendations and generationError of every other model, and
\* every other model's job, as they are, and leaves every context file and
\* ticket as it is.
AttemptWritesOnlyItsModel ==
    [][\A r \in RequestIds :
        (req'[r] # req[r] /\ req'[r].via \in {"route", "service"}) =>
            /\ \A m \in ModelIds \ {req'[r].id} :
                    /\ threatModels'[m].status = threatModels[m].status
                    /\ threatModels'[m].threats = threatModels[m].threats
                    /\ threatModels'[m].summary = threatModels[m].summary
                    /\ threatModels'[m].recommendations
                            = threatModels[m].recommendations
                    /\ threatModels'[m].generationError
                            = threatModels[m].generationError
                    /\ generationJobs'[m] = generationJobs[m]
            /\ contextFiles' = contextFiles
            /\ jiraTickets' = jiraTickets]_vars

\* An attempt for m1 has failed while an attempt for m2 is waiting for the
\* provider, m2 still generating and both models with their files.
FailedBesideGeneratingWitness ==
    /\ threatModels["m1"].status = "failed"
    /\ threatModels["m2"].status = "generating"
    /\ \E r \in RequestIds :
            /\ req[r].id = "m2"
            /\ req[r].pc = "call"
            /\ req[r].files = <<Diagram>>
    /\ contextFiles["m1"] = <<Notes, Archive>>

====
